---- MODULE Spec2Model ----
(***************************************************************************)
(* A model of BitcoinLedgerProvider                                        *)
(* (src/src/providers/bitcoin/BitcoinLedgerProvider.js): fee estimation,   *)
(* script generation, unused-address discovery, UTXO selection and the     *)
(* assembly of a signed transaction.                                       *)
(* The last part models the swap driver                                    *)
(* (src/examples/swap/cli/bitcoin.js): doSwap and its chain of calls.      *)
(*                                                                         *)
(* JavaScript values.  A JavaScript number that may fail to be a number is *)
(* a set of at most one integer: {n} is the number n, {} is NaN (and an    *)
(* argument that was not passed, undefined, which arithmetic turns into    *)
(* NaN).  Every comparison with NaN is false.  A JavaScript string of hex  *)
(* digits is a sequence of one-character strings.                          *)
(***************************************************************************)
EXTENDS Integers, Sequences, FiniteSets, TLC

VARIABLES
    feeCall,        \* calculateFee: the arguments and the value returned
    scriptCall,     \* generateScript: address, network, and the outcome
    op,             \* the provider operation the caller invoked
    oracle,         \* the isUsedAddress provider: what it answers, and how
    utxoSet,        \* the chain: address index -> its unspent outputs' values
    gua,            \* getUnusedAddress: its locals and position
    sel,            \* getUtxosForAmount: its locals and position
    calls,          \* getAddressFromDerivationPath calls that have not resolved
    cst,            \* createSignedTransaction: its locals and position
    swap            \* the swap driver's doSwap: its closure, position and calls

vars == <<feeCall, scriptCall, op, oracle, utxoSet, gua, sel, calls, cst, swap>>
providerVars == <<op, oracle, utxoSet, gua, sel, calls, cst>>

(***************************************************************************)
(* Bounds of the model.                                                    *)
(***************************************************************************)
MaxCount == 4           \* largest numInputs / numOutputs tried
MaxFeePerByte == 4      \* largest feePerByte tried
MaxQueries == 11        \* isUsedAddress queries one call is followed for
MaxStartIndex == 1      \* largest from.index tried
MaxAddresses == 2       \* addresses 0..MaxAddresses-1 may hold outputs
MaxUtxosPerAddress == 2 \* most unspent outputs at one address

\* this._unusedAddressCountdown (line 21): the scan limit the constructor sets
unusedAddressCountdown == 10

(***************************************************************************)
(* JavaScript arithmetic on numbers that may be NaN.                       *)
(***************************************************************************)
NaN == {}
Num(n) == {n}
JsAdd(n, x) == {n + v : v \in x}                 \* n + x
JsGreater(n, x) == \E v \in x : n > v            \* n > x
JsAtLeast(n, x) == \E v \in x : n >= v           \* n >= x
ValueOf(x) == CHOOSE v \in x : TRUE              \* the number, of a number

(***************************************************************************)
(* calculateFee (lines 113-115).  feePerByte is {f}, or {} when the caller *)
(* passes no third argument.                                               *)
(***************************************************************************)
\* the byte sizes of an input and an output exchanged
calculateFeeSizesExchanged(numInputs, numOutputs, feePerByte) ==
    {((numInputs * 34) + (numOutputs * 148) + 10) * f : f \in feePerByte}

\* the outputs' bytes subtracted
calculateFeeOutputsSubtracted(numInputs, numOutputs, feePerByte) ==
    {((numInputs * 148) - (numOutputs * 34) + 10) * f : f \in feePerByte}

calculateFee(numInputs, numOutputs, feePerByte) ==
    {((numInputs * 148) + (numOutputs * 34) + 10) * f : f \in feePerByte}

(***************************************************************************)
(* generateScript (lines 88-111).                                          *)
(* An address is its decoded form [version, pubKeyHash]; base58.decode     *)
(* yields the version byte followed by the hash, toString('hex') two       *)
(* lower-case hex digits a byte.                                           *)
(***************************************************************************)
HexDigits == <<"0", "1", "2", "3", "4", "5", "6", "7",
               "8", "9", "a", "b", "c", "d", "e", "f">>

toHex(byte) == <<HexDigits[(byte \div 16) + 1], HexDigits[(byte % 16) + 1]>>

upper(ch) ==
    CASE ch = "a" -> "A" [] ch = "b" -> "B" [] ch = "c" -> "C"
      [] ch = "d" -> "D" [] ch = "e" -> "E" [] ch = "f" -> "F"
      [] OTHER -> ch

toUpperCase(s) == [i \in DOMAIN s |-> upper(s[i])]

\* hex of the decoded address: the version byte, then the hash
decodeHex(address) == toHex(address.version) \o <<address.pubKeyHash>>

addressToPubKeyHash(address) == address.pubKeyHash

\* the version compared without toUpperCase
generateScriptLowerCase(address, network) ==
    LET type == SubSeq(decodeHex(address), 1, 2)
        pubKeyHash == addressToPubKeyHash(address)
    IN  IF type = network.pubKeyHash
        THEN [error |-> "none",
              script |-> <<"76", "a9", "14", pubKeyHash, "88", "ac">>]
        ELSE IF type = network.scriptHash
        THEN [error |-> "none",
              script |-> <<"a9", "14", pubKeyHash, "87">>]
        ELSE [error |-> "Not a valid address:", script |-> <<>>]

generateScript(address, network) ==
    LET type == toUpperCase(SubSeq(decodeHex(address), 1, 2))
        pubKeyHash == addressToPubKeyHash(address)
    IN  IF type = network.pubKeyHash
        THEN [error |-> "none",
              script |-> <<"76", "a9", "14", pubKeyHash, "88", "ac">>]
        ELSE IF type = network.scriptHash
        THEN [error |-> "none",
              script |-> <<"a9", "14", pubKeyHash, "87">>]
        ELSE [error |-> "Not a valid address:", script |-> <<>>]

\* the network parameter table: version bytes as upper-case hex strings
networks ==
    { [name |-> "bitcoin", pubKeyHash |-> <<"0", "0">>, scriptHash |-> <<"0", "5">>],
      [name |-> "bitcoin_testnet", pubKeyHash |-> <<"6", "F">>, scriptHash |-> <<"C", "4">>] }

PubKeyHashes == {"h1", "h2"}
Addresses == [version : 0..255, pubKeyHash : PubKeyHashes]


(***************************************************************************)
(* The provider's asynchronous operations.                                 *)
(*                                                                         *)
(* A value returned by getAddressFromDerivationPath is [promise, path]:    *)
(* the Address of the path, still wrapped in its promise unless the caller *)
(* awaited it.  A property read on a promise is undefined ({}).            *)
(***************************************************************************)
UtxoValues == {5000, 15000}
TargetAmounts == {10000}
FeeRates == {1, 3}

RECURSIVE SeqsUpTo(_, _)
SeqsUpTo(S, n) ==
    IF n = 0 THEN {<<>>}
    ELSE LET shorter == SeqsUpTo(S, n - 1)
         IN  shorter \cup {Append(q, v) : q \in shorter, v \in S}

UtxoSets == [0..(MaxAddresses - 1) -> SeqsUpTo(UtxoValues, MaxUtxosPerAddress)]
NoUtxos == [i \in 0..(MaxAddresses - 1) |-> <<>>]

\* from: {} is a from without index, {i} one with index i
FromArgs == {{}} \cup {{i} : i \in 0..MaxStartIndex}

\* x || 0
JsOrZero(x) == IF x = {} THEN 0 ELSE CHOOSE v \in x : TRUE

\* the function's feePerByte = 3 default (line 117)
defaultFeePerByte(arg) == IF arg = {} THEN {3} ELSE arg

\* address.address (lines 54, 126)
addressOf(address) == IF address.promise THEN {} ELSE {address.path}
\* an address without a derivation path
derivationPathMissing(address) == {}
\* address.derivationPath (line 131)
derivationPathOf(address) == IF address.promise THEN {} ELSE {address.path}

\* !isUsed (line 55): a promise is truthy
Falsy(isUsed) == isUsed = "false"

\* what may be passed to isUsedAddress: undefined ({}) or the address of an index
OracleArguments == {{}} \cup {{i} : i \in 0..MaxStartIndex}

\* the providers isUsedAddress can resolve to: an asynchronous one hands back a
\* promise, a synchronous one its answer.  The answers do not change while
\* synchronous code runs.
Oracles == [promise : BOOLEAN, used : [OracleArguments -> BOOLEAN]]
NoOracle == [promise |-> TRUE, used |-> [a \in OracleArguments |-> FALSE]]

\* what this.getMethod('isUsedAddress')(argument) hands back to a caller that
\* does not await it
isUsedAddress(argument) ==
    IF oracle.promise THEN "Promise"
    ELSE IF oracle.used[argument] THEN "true" ELSE "false"

\* the node's answer to getUnspentTransactions for the address at index i
getUnspentTransactions(i) ==
    IF i \in DOMAIN utxoSet
    THEN [k \in 1..Len(utxoSet[i]) |->
            [value |-> utxoSet[i][k], tx_hash |-> <<i, k>>, derivationPath |-> {}]]
    ELSE <<>>

\* utxos.reduce((acc, utxo) => acc + utxo.value, 0)
RECURSIVE reduceValue(_)
reduceValue(utxos) ==
    IF utxos = <<>> THEN 0 ELSE Head(utxos).value + reduceValue(Tail(utxos))

\* the callback with unshift for push: the output goes to the front of the list
forEachBodyUnshift(s, utxo, utxosValue, address) ==
    [s EXCEPT
       !.currentAmount = @ + utxosValue,
       !.utxosToUse = <<[utxo EXCEPT !.derivationPath = derivationPathOf(address)]>> \o @,
       !.totalCost = NaN]

\* the body of utxos.forEach (lines 129-142), over locals s
forEachBody(s, utxo, utxosValue, address) ==
    LET currentAmount == s.currentAmount + utxosValue
        utxosToUse == Append(s.utxosToUse,
                             [utxo EXCEPT !.derivationPath = derivationPathOf(address)])
        fees == calculateFee(Len(utxosToUse), s.numOutputsOffset + 1, {})
        totalCost == JsAdd(s.amount, fees)
        change == s.numOutputsOffset = 0 /\ JsGreater(currentAmount, totalCost)
        withChange == calculateFee(Len(utxosToUse), 2, s.feePerByte)
    IN  [s EXCEPT
           !.currentAmount = currentAmount,
           !.utxosToUse = utxosToUse,
           !.numOutputsOffset = IF change THEN 1 ELSE @,
           !.totalCost = IF change
                         THEN {(t - f) + w : t \in totalCost, f \in fees, w \in withChange}
                         ELSE totalCost]

RECURSIVE forEach(_, _, _, _)
forEach(s, utxos, utxosValue, address) ==
    IF utxos = <<>> THEN s
    ELSE forEach(forEachBody(s, Head(utxos), utxosValue, address),
                 Tail(utxos), utxosValue, address)

\* addressIndex++ (line 144).  Addresses from MaxAddresses on hold nothing and
\* are told apart by nothing, so the index stops counting there.
increment(addressIndex) ==
    IF addressIndex < MaxAddresses THEN addressIndex + 1 ELSE addressIndex

\* the while test of line 123 and, when it passes, the call of line 125
whileTest(s) ==
    IF s.currentAmount < s.amount
    THEN [s EXCEPT !.pc = "awaitAddress"]
    ELSE [s EXCEPT !.pc = "returned"]

NoGua == [pc |-> "idle", from |-> {}, addressIndex |-> 0, unusedAddress |-> {},
          queries |-> <<>>]
NoSel == [pc |-> "idle", amount |-> 0, feePerByte |-> {}, addressIndex |-> 0,
          currentAmount |-> 0, numOutputsOffset |-> 0, utxosToUse |-> <<>>,
          totalCost |-> {}]
NoAddress == [version |-> 0, pubKeyHash |-> "h1"]
NoCst == [pc |-> "idle", value |-> 0, from |-> {}, to |-> NoAddress, error |-> "none",
          unusedAddress |-> [promise |-> TRUE, path |-> 0, address |-> NoAddress],
          unspentOutputsToUse |-> [promise |-> FALSE, items |-> <<>>],
          totalAmount |-> 0, totalCost |-> 0, hasChange |-> FALSE,
          pending |-> {}, ledgerInputs |-> <<>>, paths |-> <<>>,
          sendAmount |-> 0, changeAmount |-> 0, outputs |-> <<>>, signing |-> 0]
\* discarded: calls whose promise getUnusedAddress dropped, all waiting for getApp
NoCalls == [discarded |-> 0, unused |-> "none", utxo |-> "none"]

(***************************************************************************)
(* The swap driver (src/examples/swap/cli/bitcoin.js): doSwap and the      *)
(* client calls it chains.  A value that may be undefined is a set of at   *)
(* most one element.                                                       *)
(***************************************************************************)
MaxAttempts == 2        \* attempts are counted up to here

expiration == 1468194353
swapValue == 10000

Secrets == {"s1", "s2"}                 \* what generateSecret resolves to
SwapAddresses == {"a1", "a2"}           \* address.address of getUnusedAddress
TxIds == {"t1", "t2"}                   \* transaction ids
sha256(secret) == <<"sha256", secret>>  \* crypto.sha256: no two secrets collide

\* the comparison of line 35 left out
txidIgnored(result, initTxId) == TRUE
\* line 35: result._raw.txid == initTxId
txidMatches(result, initTxId) == result = initTxId

noArgs == [txid |-> {}, value |-> {}, recipientAddress |-> {}, refundAddress |-> {},
           secretHash |-> {}, secret |-> {}, expiration |-> {}]
\* the arguments lines 26-47 pass from the closure s
swapParams(s) == [noArgs EXCEPT !.recipientAddress = s.recipientAddress,
                                !.refundAddress = s.refundAddress,
                                !.secretHash = s.secretHash,
                                !.expiration = s.expiration]
called(name, args) == [name |-> name, kind |-> "call", args |-> args, result |-> {}]
resolved(name, result) ==
    [name |-> name, kind |-> "resolve", args |-> noArgs, result |-> result]
rejected(name) == [name |-> name, kind |-> "reject", args |-> noArgs, result |-> {}]

NoSwap == [pc |-> "idle", attempts |-> 0, secret |-> {}, secretHash |-> {},
           recipientAddress |-> {}, refundAddress |-> {}, expiration |-> {},
           value |-> {}, createSwapScript |-> "none", initTxId |-> {},
           reported |-> "none", log |-> <<>>]

ProviderIdle ==
    /\ op = "none"
    /\ oracle = NoOracle
    /\ utxoSet = NoUtxos
    /\ gua = NoGua
    /\ sel = NoSel
    /\ calls = NoCalls
    /\ cst = NoCst

\* requests to the signing device that have been sent and not answered
InFlight ==
    (IF calls.unused = "device" THEN 1 ELSE 0)
      + (IF calls.utxo = "device" THEN 1 ELSE 0)
      + (IF cst.pc = "awaitSigned" THEN 1 ELSE 0)

\* lines 172-182 of createSignedTransaction, on an array of outputs
\* the cost left at the fee for one output when there is change
fundsOneOutputFee(items, value) ==
    LET totalAmount == reduceValue(items)
        fee == ValueOf(calculateFee(Len(items), 1, {3}))
    IN  [totalAmount |-> totalAmount,
         hasChange |-> totalAmount > value + fee,
         totalCost |-> value + fee]

funds(items, value) ==
    LET totalAmount == reduceValue(items)
        fee == ValueOf(calculateFee(Len(items), 1, {3}))
        hasChange == totalAmount > value + fee
    IN  [totalAmount |-> totalAmount,
         hasChange |-> hasChange,
         totalCost |-> IF hasChange
                       THEN ((value + fee) - fee)
                              + ValueOf(calculateFee(Len(items), 2, {3}))
                       ELSE value + fee]

\* getAmountBuffer (lines 63-68): the amount as 16 hex digits, the 8 bytes of
\* which are reversed: the least significant byte first
RECURSIVE littleEndian(_, _)
littleEndian(amount, bytes) ==
    IF bytes = 0 THEN <<>>
    ELSE <<amount % 256>> \o littleEndian(amount \div 256, bytes - 1)
getAmountBuffer(amount) == littleEndian(amount, 8)

\* the network of the constructor's default chain (line 14)
bitcoin == CHOOSE n \in networks : n.name = "bitcoin"

\* lines 191-201 of createSignedTransaction: the outputs, or the error
\* generateScript throws
assembleOutputs(to, unusedAddress, sendAmount, changeAmount, hasChange) ==
    LET sendScript == generateScript(to, bitcoin)
        send == [amount |-> getAmountBuffer(sendAmount), script |-> sendScript.script]
        changeScript == generateScript(unusedAddress.address, bitcoin)
        change == [amount |-> getAmountBuffer(changeAmount),
                   script |-> changeScript.script]
    IN  IF sendScript.error # "none"
        THEN [error |-> sendScript.error, outputs |-> <<>>]
        ELSE IF ~hasChange
        THEN [error |-> "none", outputs |-> <<send>>]
        ELSE IF unusedAddress.promise
        THEN [error |-> "TypeError", outputs |-> <<>>]
        ELSE IF changeScript.error # "none"
        THEN [error |-> changeScript.error, outputs |-> <<>>]
        ELSE [error |-> "none", outputs |-> <<send, change>>]

\* synchronous code is running: no continuation can be scheduled
Sync == gua.pc \in {"called", "loop"} \/ cst.pc \in {"line169", "line170"}

(***************************************************************************)
(* Specification of calculateFee on bounded arguments.                     *)
(***************************************************************************)
NoScriptCall == [pc |-> "idle"]
NoFeeCall == [pc |-> "idle"]

InitFee ==
    /\ \E ni \in 0..MaxCount, no \in 0..MaxCount, f \in 0..MaxFeePerByte :
          feeCall = [pc |-> "called", numInputs |-> ni, numOutputs |-> no,
                     feePerByte |-> f, fee |-> NaN]
    /\ scriptCall = NoScriptCall
    /\ ProviderIdle
    /\ swap = NoSwap

CalculateFee ==
    /\ feeCall.pc = "called"
    /\ feeCall' = [feeCall EXCEPT
                     !.pc = "returned",
                     !.fee = calculateFee(feeCall.numInputs, feeCall.numOutputs,
                                          Num(feeCall.feePerByte))]
    /\ UNCHANGED <<scriptCall, providerVars, swap>>

NextFee == CalculateFee

SpecFee == InitFee /\ [][NextFee]_vars

(***************************************************************************)
(* Specification of generateScript on every version byte.                  *)
(***************************************************************************)
InitScript ==
    /\ \E a \in Addresses, n \in networks :
          scriptCall = [pc |-> "called", address |-> a, network |-> n,
                        error |-> "none", script |-> <<>>]
    /\ feeCall = NoFeeCall
    /\ ProviderIdle
    /\ swap = NoSwap

GenerateScript ==
    /\ scriptCall.pc = "called"
    /\ LET r == generateScript(scriptCall.address, scriptCall.network)
       IN  scriptCall' = [scriptCall EXCEPT
                            !.pc = IF r.error = "none" THEN "returned" ELSE "thrown",
                            !.error = r.error,
                            !.script = r.script]
    /\ UNCHANGED <<feeCall, providerVars, swap>>

NextScript == GenerateScript

SpecScript == InitScript /\ [][NextScript]_vars

(***************************************************************************)
(* Specification of the provider: one call of getUnusedAddress,            *)
(* getUtxosForAmount or createSignedTransaction, and the continuations it  *)
(* leaves on the event loop.                                               *)
(***************************************************************************)
Init ==
    /\ swap = NoSwap
    /\ feeCall = NoFeeCall
    /\ scriptCall = NoScriptCall
    /\ calls = NoCalls
    /\ \/ /\ op = "getUnusedAddress"
          /\ oracle \in Oracles
          /\ utxoSet = NoUtxos
          /\ \E from \in FromArgs : gua = [NoGua EXCEPT !.pc = "called", !.from = from]
          /\ sel = NoSel
          /\ cst = NoCst
       \/ /\ op = "getUtxosForAmount"
          /\ oracle = NoOracle
          /\ utxoSet \in UtxoSets
          /\ gua = NoGua
          /\ \E amount \in TargetAmounts, feePerByte \in {{}} \cup {{f} : f \in FeeRates} :
                sel = [NoSel EXCEPT !.pc = "called", !.amount = amount,
                                    !.feePerByte = feePerByte]
          /\ cst = NoCst
       \/ /\ op = "createSignedTransaction"
          /\ oracle \in {o \in Oracles : \A i \in 0..MaxStartIndex : o.used[{i}]}
          /\ utxoSet \in UtxoSets
          /\ gua = NoGua
          /\ sel = NoSel
          /\ \E value \in TargetAmounts, from \in FromArgs :
                cst = [NoCst EXCEPT !.pc = "called", !.value = value, !.from = from]

\* getUnusedAddress, lines 47-49
GetUnusedAddressCall ==
    /\ gua.pc = "called"
    /\ gua' = [gua EXCEPT !.pc = "loop",
                          !.addressIndex = JsOrZero(gua.from),
                          !.unusedAddress = {},
                          !.queries = <<>>]
    /\ UNCHANGED <<swap, feeCall, scriptCall, op, oracle, utxoSet, sel, calls, cst>>

\* getUnusedAddress, one pass of the loop of lines 51-58 and, when the loop
\* ends, the return of line 60
GetUnusedAddressLoop ==
    /\ gua.pc = "loop"
    /\ Len(gua.queries) < MaxQueries
    /\ LET path == gua.addressIndex
           address == [promise |-> TRUE, path |-> path]
           isUsed == isUsedAddress(addressOf(address))
           query == [index |-> path, argument |-> addressOf(address),
                     isUsed |-> isUsed]
       IN  IF Falsy(isUsed)
           THEN /\ gua' = [gua EXCEPT !.pc = "returned",
                                      !.unusedAddress = {path},
                                      !.queries = Append(@, query)]
                /\ calls' = [calls EXCEPT !.unused = "getApp"]
           ELSE /\ gua' = [gua EXCEPT !.queries = Append(@, query)]
                /\ calls' = [calls EXCEPT !.discarded = @ + 1]
    /\ UNCHANGED <<swap, feeCall, scriptCall, op, oracle, utxoSet, sel, cst>>

\* getAddressFromDerivationPath, lines 30-31: getApp has resolved and the call
\* sends getWalletPublicKey to the device
AddressGetApp ==
    /\ ~Sync
    /\ \/ /\ calls.unused = "getApp"
          /\ calls' = [calls EXCEPT !.unused = "device"]
       \/ /\ calls.utxo = "getApp"
          /\ calls' = [calls EXCEPT !.utxo = "device"]
    /\ UNCHANGED <<swap, feeCall, scriptCall, op, oracle, utxoSet, gua, sel, cst>>

\* getAddressFromDerivationPath, lines 31-32: the device has answered and the
\* call resolves to the Address
AddressResolve ==
    /\ ~Sync
    /\ \/ /\ calls.unused = "device"
          /\ calls' = [calls EXCEPT !.unused = "resolved"]
       \/ /\ calls.utxo = "device"
          /\ calls' = [calls EXCEPT !.utxo = "resolved"]
    /\ UNCHANGED <<swap, feeCall, scriptCall, op, oracle, utxoSet, gua, sel, cst>>

\* getUtxosForAmount, lines 117-125: the locals, the first test of the loop
\* and the first call it awaits
GetUtxosForAmountCall ==
    /\ sel.pc = "called"
    /\ gua.pc \notin {"called", "loop"}
    /\ sel' = whileTest([sel EXCEPT !.feePerByte = defaultFeePerByte(@),
                                    !.addressIndex = 0,
                                    !.currentAmount = 0,
                                    !.numOutputsOffset = 0,
                                    !.utxosToUse = <<>>])
    /\ calls' = [calls EXCEPT !.utxo = IF sel'.pc = "awaitAddress" THEN "getApp" ELSE @]
    /\ UNCHANGED <<swap, feeCall, scriptCall, op, oracle, utxoSet, gua, cst>>

\* getUtxosForAmount, lines 125-126: the address has resolved and its unspent
\* outputs are asked for
GetUtxosForAmountAddress ==
    /\ ~Sync
    /\ sel.pc = "awaitAddress"
    /\ calls.utxo = "resolved"
    /\ sel' = [sel EXCEPT !.pc = "awaitUtxos"]
    /\ calls' = [calls EXCEPT !.utxo = "none"]
    /\ UNCHANGED <<swap, feeCall, scriptCall, op, oracle, utxoSet, gua, cst>>

\* getUtxosForAmount, lines 126-147: the outputs have arrived; the forEach,
\* the increment, the next test of the loop and either the next call or the
\* return
GetUtxosForAmountUtxos ==
    /\ ~Sync
    /\ sel.pc = "awaitUtxos"
    /\ LET address == [promise |-> FALSE, path |-> sel.addressIndex]
           utxos == getUnspentTransactions(sel.addressIndex)
           utxosValue == reduceValue(utxos)
           after == forEach(sel, utxos, utxosValue, address)
       IN  sel' = whileTest([after EXCEPT !.addressIndex = increment(@)])
    /\ calls' = [calls EXCEPT !.utxo = IF sel'.pc = "awaitAddress" THEN "getApp" ELSE @]
    /\ UNCHANGED <<swap, feeCall, scriptCall, op, oracle, utxoSet, gua, cst>>

\* createSignedTransaction, lines 162-169: getApp has resolved; getUnusedAddress
\* is called and not awaited
CreateSignedTransactionLine169 ==
    /\ cst.pc = "called"
    /\ cst' = [cst EXCEPT !.pc = "line169",
                          !.unusedAddress = [promise |-> TRUE,
                                             path |-> JsOrZero(cst.from),
                                             address |-> NoAddress]]
    /\ gua' = [NoGua EXCEPT !.pc = "called", !.from = cst.from]
    /\ UNCHANGED <<swap, feeCall, scriptCall, op, oracle, utxoSet, sel, calls>>

\* createSignedTransaction, line 170: getUtxosForAmount is called with the value
\* alone and not awaited
CreateSignedTransactionLine170 ==
    /\ cst.pc = "line169"
    /\ gua.pc = "returned"
    /\ cst' = [cst EXCEPT !.pc = "line170",
                          !.unspentOutputsToUse = [promise |-> TRUE, items |-> <<>>]]
    /\ sel' = [NoSel EXCEPT !.pc = "called", !.amount = cst.value, !.feePerByte = {}]
    /\ UNCHANGED <<swap, feeCall, scriptCall, op, oracle, utxoSet, gua, calls>>

\* createSignedTransaction, lines 172-186: reduce is read off the value of line
\* 170, which is a promise unless it was awaited; on an array, the total, the
\* fee, the cost and the test of the balance
CreateSignedTransactionFunds ==
    /\ cst.pc = "line170"
    /\ sel.pc # "called"
    /\ LET f == funds(cst.unspentOutputsToUse.items, cst.value)
       IN  cst' = IF cst.unspentOutputsToUse.promise
                  THEN [cst EXCEPT !.pc = "rejected", !.error = "TypeError"]
                  ELSE IF f.totalAmount < f.totalCost
                  THEN [cst EXCEPT !.pc = "rejected", !.error = "Not enough balance",
                                   !.totalAmount = f.totalAmount,
                                   !.totalCost = f.totalCost,
                                   !.hasChange = f.hasChange]
                  ELSE [cst EXCEPT !.pc = "line188",
                                   !.totalAmount = f.totalAmount,
                                   !.totalCost = f.totalCost,
                                   !.hasChange = f.hasChange]
    /\ UNCHANGED <<swap, feeCall, scriptCall, op, oracle, utxoSet, gua, sel, calls>>

\* getLedgerInputs, lines 151-154: getApp has resolved and map starts one
\* callback an output, each asking for its transaction's hex
GetLedgerInputs ==
    /\ cst.pc = "line188"
    /\ cst' = [cst EXCEPT !.pc = "awaitLedgerInputs",
                          !.pending = DOMAIN cst.unspentOutputsToUse.items,
                          !.ledgerInputs = [k \in DOMAIN cst.unspentOutputsToUse.items
                                              |-> <<>>]]
    /\ UNCHANGED <<swap, feeCall, scriptCall, op, oracle, utxoSet, gua, sel, calls>>

\* getLedgerInputs, lines 154-157: one callback's hex has arrived; it is split
\* and the callback resolves
GetLedgerInputsHex ==
    /\ cst.pc = "awaitLedgerInputs"
    /\ \E k \in cst.pending :
          LET utxo == cst.unspentOutputsToUse.items[k]
          IN  cst' = [cst EXCEPT !.pending = @ \ {k},
                                 !.ledgerInputs[k] = <<utxo.tx_hash>>]
    /\ UNCHANGED <<swap, feeCall, scriptCall, op, oracle, utxoSet, gua, sel, calls>>

\* createSignedTransaction, lines 188-204: every callback has resolved; the
\* paths, the outputs, and the signing request sent to the device
CreateSignedTransactionSign ==
    /\ cst.pc = "awaitLedgerInputs"
    /\ cst.pending = {}
    /\ LET items == cst.unspentOutputsToUse.items
           paths == [k \in DOMAIN items |-> items[k].derivationPath]
           sendAmount == cst.value
           changeAmount == cst.totalAmount - cst.totalCost
           out == assembleOutputs(cst.to, cst.unusedAddress, sendAmount, changeAmount,
                                  cst.hasChange)
       IN  cst' = IF out.error # "none"
                  THEN [cst EXCEPT !.pc = "rejected", !.error = out.error,
                                   !.paths = paths,
                                   !.sendAmount = sendAmount,
                                   !.changeAmount = changeAmount]
                  ELSE [cst EXCEPT !.pc = "awaitSigned",
                                   !.paths = paths,
                                   !.sendAmount = sendAmount,
                                   !.changeAmount = changeAmount,
                                   !.outputs = out.outputs,
                                   !.signing = @ + 1]
    /\ UNCHANGED <<swap, feeCall, scriptCall, op, oracle, utxoSet, gua, sel, calls>>

\* createSignedTransaction, lines 204-206: the device has signed
CreateSignedTransactionReturn ==
    /\ cst.pc = "awaitSigned"
    /\ cst' = [cst EXCEPT !.pc = "returned"]
    /\ UNCHANGED <<swap, feeCall, scriptCall, op, oracle, utxoSet, gua, sel, calls>>

Next ==
    \/ GetUnusedAddressCall
    \/ GetUnusedAddressLoop
    \/ AddressGetApp
    \/ AddressResolve
    \/ GetUtxosForAmountCall
    \/ GetUtxosForAmountAddress
    \/ GetUtxosForAmountUtxos
    \/ CreateSignedTransactionLine169
    \/ CreateSignedTransactionLine170
    \/ CreateSignedTransactionFunds

Spec == Init /\ [][Next]_vars

(***************************************************************************)
(* Specification of lines 172-206 of createSignedTransaction on resolved   *)
(* values: an array of outputs in unspentOutputsToUse and an Address in    *)
(* unusedAddress, the values the promises of lines 169-170 resolve to.     *)
(***************************************************************************)
MaxInputs == 2          \* most outputs in the array
InputValues == {5000, 10576, 10600, 10678, 15000}
ToAddresses == {[version |-> 0, pubKeyHash |-> "h1"], [version |-> 48, pubKeyHash |-> "h1"]}

\* the array a selection resolves to: the k-th output comes from address k - 1
itemsOf(values) ==
    [k \in DOMAIN values |->
        [value |-> values[k], tx_hash |-> <<k - 1, 1>>, derivationPath |-> {k - 1}]]

InitAssemble ==
    /\ swap = NoSwap
    /\ feeCall = NoFeeCall
    /\ scriptCall = NoScriptCall
    /\ op = "createSignedTransaction"
    /\ oracle = NoOracle
    /\ utxoSet = NoUtxos
    /\ gua = NoGua
    /\ sel = NoSel
    /\ calls = NoCalls
    /\ \E value \in TargetAmounts, to \in ToAddresses,
          values \in SeqsUpTo(InputValues, MaxInputs) :
          cst = [NoCst EXCEPT
                   !.pc = "line170", !.value = value, !.to = to,
                   !.unusedAddress = [promise |-> FALSE, path |-> 0,
                                      address |-> [version |-> 0, pubKeyHash |-> "h2"]],
                   !.unspentOutputsToUse = [promise |-> FALSE, items |-> itemsOf(values)]]

NextAssemble ==
    \/ CreateSignedTransactionFunds
    \/ GetLedgerInputs
    \/ GetLedgerInputsHex
    \/ CreateSignedTransactionSign
    \/ CreateSignedTransactionReturn

SpecAssemble == InitAssemble /\ [][NextAssemble]_vars

(***************************************************************************)
(* The provider under fair scheduling: the event loop runs every           *)
(* continuation that is ready, and the device and the node answer every    *)
(* request.                                                                *)
(***************************************************************************)
FairSpec ==
    /\ Spec
    /\ WF_vars(GetUnusedAddressCall)
    /\ WF_vars(GetUnusedAddressLoop)
    /\ WF_vars(AddressGetApp)
    /\ WF_vars(AddressResolve)
    /\ WF_vars(GetUtxosForAmountCall)
    /\ WF_vars(GetUtxosForAmountAddress)
    /\ WF_vars(GetUtxosForAmountUtxos)
    /\ WF_vars(CreateSignedTransactionLine169)
    /\ WF_vars(CreateSignedTransactionLine170)
    /\ WF_vars(CreateSignedTransactionFunds)

(***************************************************************************)
(* Claims.                                                                 *)
(***************************************************************************)

\* C1: whenever getUtxosForAmount returns a list, the values of the returned
\* outputs sum to at least the target plus calculateFee(number returned, output
\* count used, feePerByte).
C1_SelectionSufficiency ==
    sel.pc = "returned" =>
        JsAtLeast(reduceValue(sel.utxosToUse),
                  JsAdd(sel.amount,
                        calculateFee(Len(sel.utxosToUse), sel.numOutputsOffset + 1,
                                     sel.feePerByte)))

\* C2: a call of getUtxosForAmount always ends, returning or failing; it does
\* not go on scanning addresses for ever when the funds do not cover the target.
C2_SelectionTerminates ==
    (op = "getUtxosForAmount") => <>(sel.pc \in {"returned", "rejected"})

\* C3: getUnusedAddress asks about at most the scan limit of candidates and never
\* asks about the same derivation index twice (each pass of its loop advances the
\* index).
C3_UnusedAddressScanBounded ==
    /\ Len(gua.queries) <= unusedAddressCountdown
    /\ \A i, j \in DOMAIN gua.queries :
          i # j => gua.queries[i].index # gua.queries[j].index

\* C4: when getUnusedAddress returns the address at index i, the oracle was asked
\* about that address and answered 'not used', and it answered 'used' for the
\* address at every index from the start index up to i.
C4_FirstUnusedAddress ==
    gua.pc = "returned" =>
        \A i \in gua.unusedAddress :
            /\ \E k \in DOMAIN gua.queries :
                  /\ gua.queries[k].argument = {i}
                  /\ gua.queries[k].isUsed = "false"
            /\ \A j \in JsOrZero(gua.from)..(i - 1) :
                  \E k \in DOMAIN gua.queries :
                      /\ gua.queries[k].argument = {j}
                      /\ gua.queries[k].isUsed = "true"

\* calculateFee as the linear cost model, and its value at (1, 1, 3) and
\* (1, 2, 3) as given
feeIs(atOneOutput, atTwoOutputs) ==
    /\ feeCall.pc = "returned" =>
          feeCall.fee = Num(feeCall.numInputs * 148 * feeCall.feePerByte
                              + feeCall.numOutputs * 34 * feeCall.feePerByte
                              + 10 * feeCall.feePerByte)
    /\ (feeCall.pc = "returned" /\ feeCall.numInputs = 1 /\ feeCall.feePerByte = 3) =>
          /\ feeCall.numOutputs = 1 => feeCall.fee = Num(atOneOutput)
          /\ feeCall.numOutputs = 2 => feeCall.fee = Num(atTwoOutputs)

\* C5: createSignedTransaction fails with the insufficient-funds error whenever
\* the selected outputs' total is below the total cost, and then no signing
\* request has been sent to the device.
C5_InsufficientFundsError ==
    (/\ op = "createSignedTransaction"
     /\ sel.pc = "returned"
     /\ cst.pc \notin {"called", "line169", "line170"}
     /\ reduceValue(sel.utxosToUse) < funds(sel.utxosToUse, cst.value).totalCost)
        => /\ cst.pc = "rejected"
           /\ cst.error = "Not enough balance"
           /\ cst.signing = 0

\* the 8 bytes of an amount of zero
zeroAmount == [i \in 1..8 |-> 0]

C7_FeeFormulaAsClaimed == feeIs(576, 888)

\* C7, amended: calculateFee(numInputs, numOutputs, feePerByte) is
\* (numInputs*148 + numOutputs*34 + 10) * feePerByte; calculateFee(1,1,3) is 576
\* and calculateFee(1,2,3) is 678.
C7_FeeFormula == feeIs(576, 678)

C7_Witness ==
    /\ feeCall.pc = "returned"
    /\ feeCall.numInputs = 1 /\ feeCall.numOutputs = 2 /\ feeCall.feePerByte = 3
    /\ feeCall.fee = {678}

\* C8: the fee does not decrease when numInputs, numOutputs or feePerByte grows by
\* one, and grows when feePerByte grows, for counts above zero.
C8_FeeMonotone ==
    feeCall.pc = "returned" =>
        LET ni == feeCall.numInputs
            no == feeCall.numOutputs
            f == feeCall.feePerByte
            fee == ValueOf(feeCall.fee)
        IN  /\ ValueOf(calculateFee(ni + 1, no, Num(f))) >= fee
            /\ ValueOf(calculateFee(ni, no + 1, Num(f))) >= fee
            /\ ValueOf(calculateFee(ni, no, Num(f + 1))) >= fee
            /\ (ni > 0 /\ no > 0) => ValueOf(calculateFee(ni, no, Num(f + 1))) > fee

C8_Witness ==
    /\ feeCall.pc = "returned"
    /\ feeCall.numInputs = 2 /\ feeCall.numOutputs = 2 /\ feeCall.feePerByte = 1
    /\ ValueOf(calculateFee(2, 2, Num(2))) > ValueOf(feeCall.fee)
    /\ ValueOf(calculateFee(2, 3, Num(1))) > ValueOf(feeCall.fee)

\* the byte a network parameter's two hex digits stand for
hexDigitValue(ch) == CHOOSE d \in 0..15 : upper(HexDigits[d + 1]) = upper(ch)
versionByte(hex) == hexDigitValue(hex[1]) * 16 + hexDigitValue(hex[2])

\* C9: generateScript yields the pay-to-pubkey-hash script exactly when the
\* address's version byte is the network's pubkey-hash version, the
\* pay-to-script-hash script exactly when it is the script-hash version, and for
\* every other version byte it throws and yields no script.
C9_ScriptByVersionByte ==
    scriptCall.pc # "called" =>
        LET version == scriptCall.address.version
            hash == scriptCall.address.pubKeyHash
            isPubKeyHash == version = versionByte(scriptCall.network.pubKeyHash)
            isScriptHash == version = versionByte(scriptCall.network.scriptHash)
            p2pkh == /\ scriptCall.pc = "returned"
                     /\ scriptCall.script = <<"76", "a9", "14", hash, "88", "ac">>
            p2sh == /\ scriptCall.pc = "returned"
                    /\ scriptCall.script = <<"a9", "14", hash, "87">>
        IN  /\ p2pkh <=> isPubKeyHash
            /\ p2sh <=> isScriptHash
            /\ (~isPubKeyHash /\ ~isScriptHash) =>
                  /\ scriptCall.pc = "thrown"
                  /\ scriptCall.error # "none"
                  /\ scriptCall.script = <<>>

C9_Witness ==
    /\ scriptCall.pc = "thrown"
    /\ scriptCall.address.version = 48
    /\ scriptCall.network.name = "bitcoin_testnet"
    /\ scriptCall.script = <<>>

\* C10: at no time are two requests to the signing device in flight.
C10_DeviceExclusive == InFlight <= 1

\* the outputs of addresses 0..n-1 as the node lists them, address after address
RECURSIVE outputsOfFirst(_)
outputsOfFirst(n) ==
    IF n = 0 THEN <<>>
    ELSE outputsOfFirst(n - 1)
           \o [k \in 1..Len(utxoSet[n - 1]) |->
                 [value |-> utxoSet[n - 1][k], tx_hash |-> <<n - 1, k>>,
                  derivationPath |-> {n - 1}]]

RECURSIVE sumOf(_)
sumOf(values) == IF values = <<>> THEN 0 ELSE Head(values) + sumOf(Tail(values))

\* what the scan has counted after n addresses: every address's total once for
\* each of its outputs
RECURSIVE countedAfter(_)
countedAfter(n) ==
    IF n = 0 THEN 0
    ELSE countedAfter(n - 1) + Len(utxoSet[n - 1]) * sumOf(utxoSet[n - 1])

\* C11: the list getUtxosForAmount returns is a function of the chain and the
\* target alone: the outputs of addresses 0, 1, ... in ascending index order, each
\* address's outputs in the order the node listed them, up to the first address
\* at which the scan's count reaches the target.
C11_SelectionDeterministicOrdered ==
    sel.pc = "returned" =>
        \E n \in 0..MaxAddresses :
            /\ countedAfter(n) >= sel.amount
            /\ \A m \in 0..(n - 1) : countedAfter(m) < sel.amount
            /\ sel.utxosToUse = outputsOfFirst(n)

C11_Witness ==
    /\ sel.pc = "returned"
    /\ Len(sel.utxosToUse) = 3
    /\ sel.utxosToUse[1].tx_hash = <<0, 1>>
    /\ sel.utxosToUse[2].tx_hash = <<1, 1>>
    /\ sel.utxosToUse[3].tx_hash = <<1, 2>>

\* C12: every asynchronous call is waited for. getUnusedAddress asks the oracle
\* about the resolved address of the candidate and decides on the oracle's
\* answer; createSignedTransaction goes past line 170 only when the unused
\* address and the selection have both resolved, and works on their results.
C12_AsyncCallsAwaited ==
    /\ \A k \in DOMAIN gua.queries :
          /\ gua.queries[k].argument = {gua.queries[k].index}
          /\ gua.queries[k].isUsed
                = (IF oracle.used[{gua.queries[k].index}] THEN "true" ELSE "false")
    /\ cst.pc \notin {"idle", "called", "line169", "line170"} =>
          /\ calls.unused = "resolved"
          /\ sel.pc = "returned"
          /\ ~cst.unusedAddress.promise
          /\ ~cst.unspentOutputsToUse.promise

\* C13: at every point of the selection currentAmount is the sum of the values
\* of the outputs in utxosToUse, also when one address holds two outputs or more.
C13_RunningSumConsistent ==
    sel.pc # "idle" => sel.currentAmount = reduceValue(sel.utxosToUse)

\* the total cost of C14 after k outputs worth `collected`
costAfter(k, collected, amount, feePerByte) ==
    LET noChange == amount + ValueOf(calculateFee(k, 1, {feePerByte}))
        withChange == amount + ValueOf(calculateFee(k, 2, {feePerByte}))
    IN  IF collected > noChange THEN withChange ELSE noChange

\* C14: once outputs have been collected, the running total cost is the target
\* plus calculateFee(k, 1, feePerByte) while the collected value has not exceeded
\* it, and the target plus calculateFee(k, 2, feePerByte) from then on; both fees
\* are computed at the caller's feePerByte.
C14_RunningTotalCost ==
    (sel.pc # "idle" /\ sel.utxosToUse # <<>>) =>
        \E feePerByte \in sel.feePerByte :
            LET k == Len(sel.utxosToUse)
                collected == reduceValue(sel.utxosToUse)
            IN  /\ sel.totalCost = {costAfter(k, collected, sel.amount, feePerByte)}
                /\ sel.numOutputsOffset = 1
                     <=> collected > sel.amount
                                       + ValueOf(calculateFee(k, 1, {feePerByte}))

\* C15: in a returned list, the list without its last output does not cover the
\* target plus the fee for that shorter list.
C15_StopsOnceCovered ==
    (sel.pc = "returned" /\ sel.utxosToUse # <<>>) =>
        \A feePerByte \in sel.feePerByte :
            LET shorter == SubSeq(sel.utxosToUse, 1, Len(sel.utxosToUse) - 1)
            IN  reduceValue(shorter)
                  < costAfter(Len(shorter), reduceValue(shorter), sel.amount, feePerByte)

\* the conservation of value at signing, with the fee and the change for one
\* output of 15000 and a value of 10000 as given
conservation(feeOfExample, changeOfExample) ==
    cst.pc \in {"awaitSigned", "returned"} =>
        LET items == cst.unspentOutputsToUse.items
            included == Len(cst.outputs)
            change == IF included = 2 THEN cst.changeAmount ELSE 0
            fee == ValueOf(calculateFee(Len(items), included, {3}))
        IN  /\ reduceValue(items) = cst.sendAmount + change + fee
            /\ cst.sendAmount = cst.value
            /\ cst.changeAmount >= 0
            /\ cst.outputs[1].amount = getAmountBuffer(cst.value)
            /\ included = 2 => cst.outputs[2].amount = getAmountBuffer(change)
            /\ (Len(items) = 1 /\ items[1].value = 15000 /\ cst.value = 10000) =>
                  /\ fee = feeOfExample
                  /\ change = changeOfExample

InitPaths == Init \/ InitAssemble

NextPaths ==
    \/ GetUnusedAddressCall
    \/ GetUnusedAddressLoop
    \/ AddressGetApp
    \/ AddressResolve
    \/ GetUtxosForAmountCall
    \/ GetUtxosForAmountAddress
    \/ GetUtxosForAmountUtxos
    \/ CreateSignedTransactionLine169
    \/ CreateSignedTransactionLine170
    \/ CreateSignedTransactionFunds
    \/ GetLedgerInputs
    \/ GetLedgerInputsHex
    \/ CreateSignedTransactionSign
    \/ CreateSignedTransactionReturn

SpecPaths == InitPaths /\ [][NextPaths]_vars

C19_SelectionReached ==
    /\ sel.pc = "returned"
    /\ \E j, k \in DOMAIN sel.utxosToUse :
          sel.utxosToUse[j].derivationPath # sel.utxosToUse[k].derivationPath

(***************************************************************************)
(* Specification of the swap driver: the script calls doSwap once (line    *)
(* 65).  Every client call settles as its provider decides: it resolves to *)
(* one of the values below or it is rejected.                              *)
(***************************************************************************)
InitSwap ==
    /\ feeCall = NoFeeCall
    /\ scriptCall = NoScriptCall
    /\ ProviderIdle
    /\ swap = [NoSwap EXCEPT !.pc = "doSwap"]

\* doSwap, lines 12-13: a new closure, and generateSecret is called
DoSwap ==
    /\ swap.pc = "doSwap"
    /\ swap' = [NoSwap EXCEPT
                  !.pc = "generateSecret",
                  !.attempts = IF swap.attempts < MaxAttempts
                               THEN swap.attempts + 1 ELSE swap.attempts,
                  !.log = <<called("generateSecret", noArgs)>>]
    /\ UNCHANGED <<feeCall, scriptCall, providerVars>>

\* lines 13-14: the secret has arrived and getUnusedAddress is called
GenerateSecretThen ==
    /\ swap.pc = "generateSecret"
    /\ \E secret \in Secrets :
          swap' = [swap EXCEPT
                     !.pc = "getUnusedAddress",
                     !.secret = {secret},
                     !.log = @ \o <<resolved("generateSecret", {secret}),
                                    called("getUnusedAddress", noArgs)>>]
    /\ UNCHANGED <<feeCall, scriptCall, providerVars>>

\* lines 14-30: the address has arrived; the parameters of the swap are fixed,
\* createSwapScript is called and left alone, and initiateSwap is called
GetUnusedAddressThen ==
    /\ swap.pc = "getUnusedAddress"
    /\ \E address \in SwapAddresses :
          LET s == [swap EXCEPT
                      !.secretHash = {sha256(x) : x \in swap.secret},
                      !.recipientAddress = {address},
                      !.refundAddress = {address},
                      !.expiration = {expiration},
                      !.value = {swapValue}]
          IN  swap' = [s EXCEPT
                         !.pc = "initiateSwap",
                         !.createSwapScript = "pending",
                         !.log = @ \o <<resolved("getUnusedAddress", {address}),
                                        called("createSwapScript", swapParams(s)),
                                        called("initiateSwap",
                                               [swapParams(s) EXCEPT
                                                  !.value = s.value])>>]
    /\ UNCHANGED <<feeCall, scriptCall, providerVars>>

\* lines 26-28: createSwapScript settles, at any time; its result is printed, its
\* rejection has no handler
CreateSwapScriptThen ==
    /\ swap.createSwapScript = "pending"
    /\ \E outcome \in {"printed", "rejected"} :
          swap' = [swap EXCEPT !.createSwapScript = outcome]
    /\ UNCHANGED <<feeCall, scriptCall, providerVars>>

\* lines 30-34: initiateSwap has resolved to a transaction id and
\* findInitiateSwapTransaction is called
InitiateSwapThen ==
    /\ swap.pc = "initiateSwap"
    /\ \E initTxId \in TxIds :
          swap' = [swap EXCEPT
                     !.pc = "findInitiateSwapTransaction",
                     !.initTxId = {initTxId},
                     !.log = @ \o <<resolved("initiateSwap", {initTxId}),
                                    called("findInitiateSwapTransaction",
                                           [swapParams(swap) EXCEPT
                                              !.value = swap.value])>>]
    /\ UNCHANGED <<feeCall, scriptCall, providerVars>>

\* lines 34-37: a transaction was found; when its id is the one of initiateSwap,
\* verifyInitiateSwapTransaction is called, and nothing happens otherwise
FindInitiateSwapTransactionThen ==
    /\ swap.pc = "findInitiateSwapTransaction"
    /\ \E result \in TxIds :
          swap' = IF txidMatches(result, ValueOf(swap.initTxId))
                  THEN [swap EXCEPT
                          !.pc = "verifyInitiateSwapTransaction",
                          !.log = @ \o <<resolved("findInitiateSwapTransaction",
                                                  {result}),
                                         called("verifyInitiateSwapTransaction",
                                                [swapParams(swap) EXCEPT
                                                   !.txid = swap.initTxId,
                                                   !.value = swap.value])>>]
                  ELSE [swap EXCEPT
                          !.pc = "halted",
                          !.log = Append(@, resolved("findInitiateSwapTransaction",
                                                     {result}))]
    /\ UNCHANGED <<feeCall, scriptCall, providerVars>>

\* lines 37-43: the verification has answered; when it is true, claimSwap is
\* called with the secret and a null WIF, and nothing happens otherwise
VerifyInitiateSwapTransactionThen ==
    /\ swap.pc = "verifyInitiateSwapTransaction"
    /\ \E isVerified \in BOOLEAN :
          swap' = IF isVerified
                  THEN [swap EXCEPT
                          !.pc = "claimSwap",
                          !.log = @ \o <<resolved("verifyInitiateSwapTransaction",
                                                  {"true"}),
                                         called("claimSwap",
                                                [noArgs EXCEPT
                                                   !.txid = swap.initTxId,
                                                   !.recipientAddress =
                                                       swap.recipientAddress,
                                                   !.refundAddress = swap.refundAddress,
                                                   !.secret = swap.secret,
                                                   !.expiration = swap.expiration])>>]
                  ELSE [swap EXCEPT
                          !.pc = "halted",
                          !.log = Append(@, resolved("verifyInitiateSwapTransaction",
                                                     {"false"}))]
    /\ UNCHANGED <<feeCall, scriptCall, providerVars>>

\* lines 43-47: claimSwap has resolved and findClaimSwapTransaction is called
ClaimSwapThen ==
    /\ swap.pc = "claimSwap"
    /\ \E claimSwapTxId \in TxIds :
          swap' = [swap EXCEPT
                     !.pc = "findClaimSwapTransaction",
                     !.log = @ \o <<resolved("claimSwap", {claimSwapTxId}),
                                    called("findClaimSwapTransaction",
                                           [swapParams(swap) EXCEPT
                                              !.txid = swap.initTxId])>>]
    /\ UNCHANGED <<feeCall, scriptCall, providerVars>>

\* lines 51-54: claimSwap was rejected; the error is printed and doSwap is called
ClaimSwapCatch ==
    /\ swap.pc = "claimSwap"
    /\ swap' = [swap EXCEPT !.pc = "doSwap", !.reported = "Error here",
                            !.log = Append(@, rejected("claimSwap"))]
    /\ UNCHANGED <<feeCall, scriptCall, providerVars>>

\* lines 47-50: the claim was found; 'Done Swap' is printed and doSwap is called
FindClaimSwapTransactionThen ==
    /\ swap.pc = "findClaimSwapTransaction"
    /\ swap' = [swap EXCEPT !.pc = "doSwap", !.reported = "Done Swap",
                            !.log = Append(@, resolved("findClaimSwapTransaction",
                                                       {"found"}))]
    /\ UNCHANGED <<feeCall, scriptCall, providerVars>>

\* a call whose promise has no catch (every one but claimSwap) is rejected: no
\* callback of the driver runs
UnhandledRejection ==
    /\ swap.pc \in {"generateSecret", "getUnusedAddress", "initiateSwap",
                    "findInitiateSwapTransaction", "verifyInitiateSwapTransaction",
                    "findClaimSwapTransaction"}
    /\ swap' = [swap EXCEPT !.pc = "unhandled", !.log = Append(@, rejected(swap.pc))]
    /\ UNCHANGED <<feeCall, scriptCall, providerVars>>

NextSwap ==
    \/ DoSwap
    \/ GenerateSecretThen
    \/ GetUnusedAddressThen
    \/ CreateSwapScriptThen
    \/ InitiateSwapThen
    \/ FindInitiateSwapTransactionThen
    \/ VerifyInitiateSwapTransactionThen
    \/ ClaimSwapThen
    \/ ClaimSwapCatch
    \/ FindClaimSwapTransactionThen
    \/ UnhandledRejection

SpecSwap == InitSwap /\ [][NextSwap]_vars

\* every call settles, and a settled call's callback runs
FairSpecSwap ==
    /\ SpecSwap
    /\ WF_vars(DoSwap)
    /\ WF_vars(GenerateSecretThen)
    /\ WF_vars(GetUnusedAddressThen)
    /\ WF_vars(CreateSwapScriptThen)
    /\ WF_vars(InitiateSwapThen)
    /\ WF_vars(FindInitiateSwapTransactionThen)
    /\ WF_vars(VerifyInitiateSwapTransactionThen)
    /\ WF_vars(ClaimSwapThen)
    /\ WF_vars(FindClaimSwapTransactionThen)

\* the k-th entry of the attempt's log is a call of the named client method
isCall(k, name) == swap.log[k].name = name /\ swap.log[k].kind = "call"
\* the k-th entry of the attempt's log is the named method resolving to result
isResolve(k, name, result) ==
    /\ swap.log[k].name = name
    /\ swap.log[k].kind = "resolve"
    /\ swap.log[k].result = result

\* C17: in an attempt claimSwap is called only after initiateSwap has resolved to
\* an id T, findInitiateSwapTransaction has resolved to a transaction of id T and
\* verifyInitiateSwapTransaction, called with T and the value, has resolved to
\* true, in that order; findClaimSwapTransaction is called only after claimSwap
\* has resolved; and all calls of the attempt are passed the same value,
\* addresses, secret hash and expiration (claimSwap the secret of that hash).
C17_SwapCallsOrdered ==
    /\ \A k \in DOMAIN swap.log :
          isCall(k, "claimSwap") =>
              \E T \in TxIds :
                  /\ swap.log[k].args.txid = {T}
                  /\ \E i, j, v, l \in 1..(k - 1) :
                        /\ i < j /\ j < v /\ v < l
                        /\ isResolve(i, "initiateSwap", {T})
                        /\ isResolve(j, "findInitiateSwapTransaction", {T})
                        /\ isCall(v, "verifyInitiateSwapTransaction")
                        /\ swap.log[v].args.txid = {T}
                        /\ swap.log[v].args.value = {swapValue}
                        /\ isResolve(l, "verifyInitiateSwapTransaction", {"true"})
    /\ \A k \in DOMAIN swap.log :
          isCall(k, "findClaimSwapTransaction") =>
              \E i \in 1..(k - 1), id \in TxIds : isResolve(i, "claimSwap", {id})
    /\ \A i, j \in DOMAIN swap.log :
          /\ \A f \in {"txid", "value", "recipientAddress", "refundAddress",
                       "secretHash", "expiration"} :
                \/ swap.log[i].args[f] = {}
                \/ swap.log[j].args[f] = {}
                \/ swap.log[i].args[f] = swap.log[j].args[f]
          /\ \/ swap.log[i].args.secret = {}
             \/ swap.log[j].args.secretHash = {}
             \/ {sha256(x) : x \in swap.log[i].args.secret} = swap.log[j].args.secretHash

C17_Witness ==
    /\ swap.reported = "Done Swap"
    /\ \E k \in DOMAIN swap.log : isCall(k, "claimSwap")
    /\ \E k \in DOMAIN swap.log : isCall(k, "findClaimSwapTransaction")

\* C18: one run of the driver starts a bounded number of swap attempts: from
\* some point on doSwap is not called again, neither after a claim that was found
\* nor after a claim that failed.
C18_AttemptsBounded == <>[](swap.pc # "doSwap")

\* C20: an attempt whose initiateSwap has resolved does not stop without having
\* printed 'Done Swap' or an error: not when the transaction found has another
\* id, not when the verification answers false, not when a call other than
\* claimSwap is rejected.
C20_AttemptReportsOutcome ==
    (swap.pc \in {"halted", "unhandled"} /\ swap.initTxId # {}) =>
        swap.reported # "none"

====
